---- MODULE Spec2Model ----
(***************************************************************************)
(* Per-core GICv3 virtualization layer (src/device/gicv3/mod.rs).         *)
(*                                                                         *)
(* A 64-bit register value is the set of its set bit positions: OR is     *)
(* union, AND is intersection, a shift moves the positions.  Interrupt    *)
(* identifiers are naturals and are turned into register values by        *)
(* FromNat, as `irq_id as u64` does.                                       *)
(***************************************************************************)
EXTENDS Integers, Sequences, FiniteSets

VARIABLES
    lr,         \* ich_lr<n>_el2 for the implemented n: the list registers
    vtr,        \* ich_vtr_el2: capability register (read only)
    sysreg,     \* the CPU-interface control registers written by gicv3_cpu_init
    phase,      \* lifecycle of the core: "reset", "active", "shutdown"
    halt,       \* "no", or the reason the core stopped ("full lr", "lr over")
    lastOp,     \* the entry point that ran last, with its inputs
    log,        \* calls, register writes and acknowledge reads of that run, in order
    unconsumed  \* identifiers injected and not consumed by the guest since

vars == <<lr, vtr, sysreg, phase, halt, lastOp, log, unconsumed>>

----------------------------------------------------------------------------
(* Register values *)

WordBits == 0..63

RECURSIVE SumBits(_)
SumBits(w) ==
    IF w = {} THEN 0
    ELSE LET b == CHOOSE x \in w : TRUE IN 2^b + SumBits(w \ {b})

\* `x as usize` for a value that fits the checker's integers
ToNat(w) == SumBits(w)

\* the bits of n from position b on
RECURSIVE BitsFrom(_, _)
BitsFrom(n, b) ==
    IF n = 0 THEN {}
    ELSE (IF n % 2 = 1 THEN {b} ELSE {}) \cup BitsFrom(n \div 2, b + 1)

\* `n as u64`
FromNat(n) == BitsFrom(n, 0)

Shl(w, k) == {b + k : b \in w} \cap WordBits
Shr(w, k) == {b - k : b \in {x \in w : x >= k}}

\* const LR_VIRTIRQ_MASK: usize = (1 << 32) - 1
LR_VIRTIRQ_MASK == 0..31

LR_GROUP1 == 60
LR_HW == 61
LR_PENDING == 62
\* bit 63, the other bit of the state field: set by the hardware only
LR_ACTIVE == LR_PENDING + 1

\* number of list registers the match arms of read_lr / write_lr cover
LR_REGS == 16

\* vtr & 0xf
VTR_LISTREGS_MASK == 15

\* vtr >> 29
VTR_PRIBITS_SHIFT == 29

SPURIOUS == 1022

\* crate::hypercall identifiers used by the dispatcher: three distinct values
\* in 8..15
SGI_EVENT_ID == 15
SGI_RESUME_ID == 14
SGI_VIRTIO_RES_ID == 9

----------------------------------------------------------------------------
(* Bounds and input sets *)

\* largest ListRegs field of the capability register in Spec (N = field + 1)
MaxListRegs == 1

\* identifiers other hypervisor components pass to inject_irq
InjectIds == {5, 16}

\* raw values the acknowledge register returns
AckValues == {5, 8, SGI_VIRTIO_RES_ID, 12, SGI_RESUME_ID, SGI_EVENT_ID, 33,
              1021, 1022, 1023}

\* reset-time contents of a list register and of the priority mask
ResetLRValues == {{}, {0, 2, LR_PENDING}}
ResetPmrValues == {FromNat(255)}

\* PRIbits field of the capability register (priority bits - 1)
ResetPriBits == {4}

----------------------------------------------------------------------------
(* Log entries *)

Call(f, id, hw) == [ev |-> "call", name |-> f, idx |-> id, hw |-> hw, val |-> {}]
Wr(reg, i, w) == [ev |-> "write", name |-> reg, idx |-> i, hw |-> FALSE, val |-> w]
Rd(reg) == [ev |-> "read", name |-> reg, idx |-> 0, hw |-> FALSE, val |-> {}]

Op(name, id, hw, ack) == [op |-> name, id |-> id, hw |-> hw, ack |-> ack]

----------------------------------------------------------------------------
(* Hardware view of the list registers *)

LRState(w) == w \cap {LR_PENDING, LR_ACTIVE}
LRVirtId(w) == w \cap LR_VIRTIRQ_MASK

\* ich_elrsr_el2: bit n set iff list register n is implemented and holds no
\* valid interrupt
ICH_ELRSR_EL2(l) == {i \in DOMAIN l : LRState(l[i]) = {}}

\* let lr_num: usize = (vtr & 0xf) + 1
lr_num(v) == ToNat(v \cap FromNat(VTR_LISTREGS_MASK)) + 1

----------------------------------------------------------------------------
(* is_sgi / is_ppi / is_spi *)

\* variant: the upper limit of the shared-peripheral range is inclusive
is_spi_le(irqn) == irqn > 31 /\ irqn <= 1020

is_sgi(irqn) == irqn < 16
is_ppi(irqn) == irqn > 15 /\ irqn < 32
is_spi(irqn) == irqn > 31 /\ irqn < 1020

----------------------------------------------------------------------------
(* read_lr / write_lr: an index outside 0..15 is the `loop {}` arm; an index *)
(* the match has an arm for but the core does not implement is an undefined  *)
(* system-register access, which traps                                       *)

read_lr(l, id) ==
    IF id \notin 0..(LR_REGS - 1) THEN [fault |-> "lr over", val |-> {}]
    ELSE IF id \notin DOMAIN l THEN [fault |-> "undef lr", val |-> {}]
    ELSE [fault |-> "no", val |-> l[id]]

write_lr(l, id, val) ==
    IF id \notin 0..(LR_REGS - 1) THEN [fault |-> "lr over", lr |-> l]
    ELSE IF id \notin DOMAIN l THEN [fault |-> "undef lr", lr |-> l]
    ELSE [fault |-> "no", lr |-> [l EXCEPT ![id] = val]]

----------------------------------------------------------------------------
(* inject_irq *)

\* variant: the scan ends at the first empty slot
RECURSIVE ScanLR_break(_, _, _, _, _, _)
ScanLR_break(l, elsr, n, irq_id, i, free_ir) ==
    IF i >= n THEN [dup |-> FALSE, fault |-> "no", free_ir |-> free_ir]
    ELSE IF ({i} \cap elsr) # {}
    THEN [dup |-> FALSE, fault |-> "no", free_ir |-> i]
    ELSE LET r == read_lr(l, i) IN
         IF r.fault # "no" THEN [dup |-> FALSE, fault |-> r.fault, free_ir |-> free_ir]
         ELSE IF (r.val \cap LR_VIRTIRQ_MASK) = FromNat(irq_id)
         THEN [dup |-> TRUE, fault |-> "no", free_ir |-> free_ir]
         ELSE ScanLR_break(l, elsr, n, irq_id, i + 1, free_ir)

\* variant: the whole register value is compared with irq_id
RECURSIVE ScanLR_nomask(_, _, _, _, _, _)
ScanLR_nomask(l, elsr, n, irq_id, i, free_ir) ==
    IF i >= n THEN [dup |-> FALSE, fault |-> "no", free_ir |-> free_ir]
    ELSE IF ({i} \cap elsr) # {}
    THEN ScanLR_nomask(l, elsr, n, irq_id, i + 1, IF free_ir = -1 THEN i ELSE free_ir)
    ELSE LET r == read_lr(l, i) IN
         IF r.fault # "no" THEN [dup |-> FALSE, fault |-> r.fault, free_ir |-> free_ir]
         ELSE IF r.val = FromNat(irq_id)
         THEN [dup |-> TRUE, fault |-> "no", free_ir |-> free_ir]
         ELSE ScanLR_nomask(l, elsr, n, irq_id, i + 1, free_ir)

\* variant: every empty slot seen replaces the remembered one
RECURSIVE ScanLR_lastfree(_, _, _, _, _, _)
ScanLR_lastfree(l, elsr, n, irq_id, i, free_ir) ==
    IF i >= n THEN [dup |-> FALSE, fault |-> "no", free_ir |-> free_ir]
    ELSE IF ({i} \cap elsr) # {}
    THEN ScanLR_lastfree(l, elsr, n, irq_id, i + 1, i)
    ELSE LET r == read_lr(l, i) IN
         IF r.fault # "no" THEN [dup |-> FALSE, fault |-> r.fault, free_ir |-> free_ir]
         ELSE IF (r.val \cap LR_VIRTIRQ_MASK) = FromNat(irq_id)
         THEN [dup |-> TRUE, fault |-> "no", free_ir |-> free_ir]
         ELSE ScanLR_lastfree(l, elsr, n, irq_id, i + 1, free_ir)

\* the for loop of inject_irq from index i on; free_ir is -1 until an empty
\* slot has been seen
RECURSIVE ScanLR(_, _, _, _, _, _)
ScanLR(l, elsr, n, irq_id, i, free_ir) ==
    IF i >= n THEN [dup |-> FALSE, fault |-> "no", free_ir |-> free_ir]
    ELSE IF ({i} \cap elsr) # {}
    THEN ScanLR(l, elsr, n, irq_id, i + 1, IF free_ir = -1 THEN i ELSE free_ir)
    ELSE LET r == read_lr(l, i) IN
         IF r.fault # "no" THEN [dup |-> FALSE, fault |-> r.fault, free_ir |-> free_ir]
         ELSE IF (r.val \cap LR_VIRTIRQ_MASK) = FromNat(irq_id)
         THEN [dup |-> TRUE, fault |-> "no", free_ir |-> free_ir]
         ELSE ScanLR(l, elsr, n, irq_id, i + 1, free_ir)

\* variant: the hardware-mapped fields are set without the is_sgi test
EncodeLR_nosgi(irq_id, is_hardware) ==
    FromNat(irq_id) \cup {LR_GROUP1} \cup {LR_PENDING}
        \cup (IF is_hardware
              THEN {LR_HW} \cup Shl(FromNat(irq_id), 32)
              ELSE {})

\* the value inject_irq composes for the list register
EncodeLR(irq_id, is_hardware) ==
    FromNat(irq_id) \cup {LR_GROUP1} \cup {LR_PENDING}
        \cup (IF ~is_sgi(irq_id) /\ is_hardware
              THEN {LR_HW} \cup Shl(FromNat(irq_id), 32)
              ELSE {})

\* what inject_irq does once the scan result s is known
InjectAfterScan(l, s, irq_id, is_hardware) ==
    LET entry == <<Call("inject_irq", irq_id, is_hardware)>>
    IN  IF s.fault # "no" THEN [lr |-> l, log |-> entry, halt |-> s.fault]
        ELSE IF s.dup THEN [lr |-> l, log |-> entry, halt |-> "no"]
        ELSE IF s.free_ir = -1 THEN [lr |-> l, log |-> entry, halt |-> "full lr"]
        ELSE LET val == EncodeLR(irq_id, is_hardware)
                 w == write_lr(l, s.free_ir, val)
             IN  IF w.fault # "no" THEN [lr |-> l, log |-> entry, halt |-> w.fault]
                 ELSE [lr |-> w.lr,
                       log |-> entry \o <<Wr("ich_lr", s.free_ir, val)>>,
                       halt |-> "no"]

\* variant: the scan covers indices 0..=lr_num
inject_irq_long(l, v, irq_id, is_hardware) ==
    InjectAfterScan(l, ScanLR(l, ICH_ELRSR_EL2(l), lr_num(v) + 1, irq_id, 0, -1),
                    irq_id, is_hardware)

\* variant: the scan covers lr_num - 1 slots
inject_irq_short(l, v, irq_id, is_hardware) ==
    InjectAfterScan(l, ScanLR(l, ICH_ELRSR_EL2(l), lr_num(v) - 1, irq_id, 0, -1),
                    irq_id, is_hardware)

\* variant: the free-slot test comes before the duplicate test
inject_irq_fullfirst(l, v, irq_id, is_hardware) ==
    LET s == ScanLR(l, ICH_ELRSR_EL2(l), lr_num(v), irq_id, 0, -1)
    IN  IF s.free_ir = -1
        THEN [lr |-> l, log |-> <<Call("inject_irq", irq_id, is_hardware)>>,
              halt |-> "full lr"]
        ELSE InjectAfterScan(l, s, irq_id, is_hardware)

inject_irq(l, v, irq_id, is_hardware) ==
    LET elsr == ICH_ELRSR_EL2(l)
        s == ScanLR(l, elsr, lr_num(v), irq_id, 0, -1)
    IN  InjectAfterScan(l, s, irq_id, is_hardware)

----------------------------------------------------------------------------
(* pending_irq / deactivate_irq *)

\* variant: only values above 0x3fe are spurious
pending_irq_gt(iar) == IF iar > SPURIOUS THEN {} ELSE {iar}

\* variant: the threshold is 0x3fd
pending_irq_low(iar) == IF iar >= SPURIOUS - 1 THEN {} ELSE {iar}

\* Option<usize> as a set with at most one element
pending_irq(iar) == IF iar >= SPURIOUS THEN {} ELSE {iar}

\* variant: the deactivation register is written for every identifier
deactivate_irq_alldir(irq_id) ==
    <<Call("deactivate_irq", irq_id, FALSE),
      Wr("icc_eoir1_el1", 0, FromNat(irq_id)),
      Wr("icc_dir_el1", 0, FromNat(irq_id))>>

deactivate_irq(irq_id) ==
    <<Call("deactivate_irq", irq_id, FALSE),
      Wr("icc_eoir1_el1", 0, FromNat(irq_id))>>
    \o (IF irq_id < 16 THEN <<Wr("icc_dir_el1", 0, FromNat(irq_id))>> ELSE <<>>)

----------------------------------------------------------------------------
(* gicv3_handle_irq_el1 *)

\* variant: a guest-forwardable identifier is injected before it is deactivated
gicv3_handle_irq_el1_swapped(l, v, iar) ==
    LET ack == pending_irq(iar)
        rd == <<Rd("icc_iar1_el1")>>
    IN  IF ack = {} THEN [lr |-> l, log |-> rd, halt |-> "no", ack |-> ack]
        ELSE LET irq_id == CHOOSE x \in ack : TRUE IN
        IF irq_id < 16 THEN
            IF irq_id < 8 THEN
                LET r == inject_irq(l, v, irq_id, FALSE)
                IN  [lr |-> r.lr,
                     log |-> rd \o r.log
                                \o (IF r.halt = "no" THEN deactivate_irq(irq_id) ELSE <<>>),
                     halt |-> r.halt, ack |-> ack]
            ELSE IF irq_id = SGI_EVENT_ID THEN
                [lr |-> l,
                 log |-> rd \o <<Call("check_events", 0, FALSE)>> \o deactivate_irq(irq_id),
                 halt |-> "no", ack |-> ack]
            ELSE IF irq_id = SGI_RESUME_ID THEN
                [lr |-> l, log |-> rd, halt |-> "no", ack |-> ack]
            ELSE IF irq_id = SGI_VIRTIO_RES_ID THEN
                [lr |-> l,
                 log |-> rd \o <<Call("handle_virtio_result", 0, FALSE)>>
                            \o deactivate_irq(irq_id),
                 halt |-> "no", ack |-> ack]
            ELSE [lr |-> l, log |-> rd, halt |-> "no", ack |-> ack]
        ELSE
            LET r == inject_irq(l, v, irq_id, TRUE)
            IN  [lr |-> r.lr,
                 log |-> rd \o r.log
                            \o (IF r.halt = "no" THEN deactivate_irq(irq_id) ELSE <<>>),
                 halt |-> r.halt, ack |-> ack]

\* variant: the resume identifier is deactivated
gicv3_handle_irq_el1_resume(l, v, iar) ==
    LET ack == pending_irq(iar)
        rd == <<Rd("icc_iar1_el1")>>
    IN  IF ack = {} THEN [lr |-> l, log |-> rd, halt |-> "no", ack |-> ack]
        ELSE LET irq_id == CHOOSE x \in ack : TRUE IN
        IF irq_id < 16 THEN
            IF irq_id < 8 THEN
                LET r == inject_irq(l, v, irq_id, FALSE)
                IN  [lr |-> r.lr, log |-> rd \o deactivate_irq(irq_id) \o r.log,
                     halt |-> r.halt, ack |-> ack]
            ELSE IF irq_id = SGI_EVENT_ID THEN
                [lr |-> l,
                 log |-> rd \o <<Call("check_events", 0, FALSE)>> \o deactivate_irq(irq_id),
                 halt |-> "no", ack |-> ack]
            ELSE IF irq_id = SGI_RESUME_ID THEN
                [lr |-> l, log |-> rd \o deactivate_irq(irq_id), halt |-> "no", ack |-> ack]
            ELSE IF irq_id = SGI_VIRTIO_RES_ID THEN
                [lr |-> l,
                 log |-> rd \o <<Call("handle_virtio_result", 0, FALSE)>>
                            \o deactivate_irq(irq_id),
                 halt |-> "no", ack |-> ack]
            ELSE [lr |-> l, log |-> rd, halt |-> "no", ack |-> ack]
        ELSE
            LET r == inject_irq(l, v, irq_id, TRUE)
            IN  [lr |-> r.lr,
                 log |-> rd \o r.log
                            \o (IF r.halt = "no" THEN deactivate_irq(irq_id) ELSE <<>>),
                 halt |-> r.halt, ack |-> ack]

\* variant: a peripheral identifier is deactivated before it is injected
gicv3_handle_irq_el1_eoifirst(l, v, iar) ==
    LET ack == pending_irq(iar)
        rd == <<Rd("icc_iar1_el1")>>
    IN  IF ack = {} THEN [lr |-> l, log |-> rd, halt |-> "no", ack |-> ack]
        ELSE LET irq_id == CHOOSE x \in ack : TRUE IN
        IF irq_id < 16 THEN
            IF irq_id < 8 THEN
                LET r == inject_irq(l, v, irq_id, FALSE)
                IN  [lr |-> r.lr, log |-> rd \o deactivate_irq(irq_id) \o r.log,
                     halt |-> r.halt, ack |-> ack]
            ELSE IF irq_id = SGI_EVENT_ID THEN
                [lr |-> l,
                 log |-> rd \o <<Call("check_events", 0, FALSE)>> \o deactivate_irq(irq_id),
                 halt |-> "no", ack |-> ack]
            ELSE IF irq_id = SGI_RESUME_ID THEN
                [lr |-> l, log |-> rd, halt |-> "no", ack |-> ack]
            ELSE IF irq_id = SGI_VIRTIO_RES_ID THEN
                [lr |-> l,
                 log |-> rd \o <<Call("handle_virtio_result", 0, FALSE)>>
                            \o deactivate_irq(irq_id),
                 halt |-> "no", ack |-> ack]
            ELSE [lr |-> l, log |-> rd, halt |-> "no", ack |-> ack]
        ELSE
            LET r == inject_irq(l, v, irq_id, TRUE)
            IN  [lr |-> r.lr,
                 log |-> rd \o deactivate_irq(irq_id) \o r.log,
                 halt |-> r.halt, ack |-> ack]

gicv3_handle_irq_el1(l, v, iar) ==
    LET ack == pending_irq(iar)
        rd == <<Rd("icc_iar1_el1")>>
    IN  IF ack = {} THEN [lr |-> l, log |-> rd, halt |-> "no", ack |-> ack]
        ELSE LET irq_id == CHOOSE x \in ack : TRUE IN
        IF irq_id < 16 THEN
            IF irq_id < 8 THEN
                LET r == inject_irq(l, v, irq_id, FALSE)
                IN  [lr |-> r.lr, log |-> rd \o deactivate_irq(irq_id) \o r.log,
                     halt |-> r.halt, ack |-> ack]
            ELSE IF irq_id = SGI_EVENT_ID THEN
                [lr |-> l,
                 log |-> rd \o <<Call("check_events", 0, FALSE)>> \o deactivate_irq(irq_id),
                 halt |-> "no", ack |-> ack]
            ELSE IF irq_id = SGI_RESUME_ID THEN
                [lr |-> l, log |-> rd, halt |-> "no", ack |-> ack]
            ELSE IF irq_id = SGI_VIRTIO_RES_ID THEN
                [lr |-> l,
                 log |-> rd \o <<Call("handle_virtio_result", 0, FALSE)>>
                            \o deactivate_irq(irq_id),
                 halt |-> "no", ack |-> ack]
            ELSE [lr |-> l, log |-> rd, halt |-> "no", ack |-> ack]
        ELSE
            LET r == inject_irq(l, v, irq_id, TRUE)
            IN  [lr |-> r.lr,
                 log |-> rd \o r.log
                            \o (IF r.halt = "no" THEN deactivate_irq(irq_id) ELSE <<>>),
                 halt |-> r.halt, ack |-> ack]

----------------------------------------------------------------------------
(* gicv3_cpu_init / gicv3_clear_pending_irqs / gicv3_cpu_shutdown *)

\* variant: the last list register is not cleared
RECURSIVE ClearLRs_short(_, _, _)
ClearLRs_short(l, n, i) ==
    IF i >= n - 1 THEN [lr |-> l, log |-> <<>>, fault |-> "no"]
    ELSE LET w == write_lr(l, i, {}) IN
         IF w.fault # "no" THEN [lr |-> l, log |-> <<>>, fault |-> w.fault]
         ELSE LET rest == ClearLRs_short(w.lr, n, i + 1)
              IN  [lr |-> rest.lr, log |-> <<Wr("ich_lr", i, {})>> \o rest.log,
                   fault |-> rest.fault]

\* for i in 0..lr_num { write_lr(i, 0) } from index i on
RECURSIVE ClearLRs(_, _, _)
ClearLRs(l, n, i) ==
    IF i >= n THEN [lr |-> l, log |-> <<>>, fault |-> "no"]
    ELSE LET w == write_lr(l, i, {}) IN
         IF w.fault # "no" THEN [lr |-> l, log |-> <<>>, fault |-> w.fault]
         ELSE LET rest == ClearLRs(w.lr, n, i + 1)
              IN  [lr |-> rest.lr, log |-> <<Wr("ich_lr", i, {})>> \o rest.log,
                   fault |-> rest.fault]

\* variant: six priority bits already clear all four registers
ClearedAP1R_ge6(num_priority_bits) ==
    (IF num_priority_bits >= 5 THEN {0} ELSE {})
    \cup (IF num_priority_bits >= 6 THEN {1} ELSE {})
    \cup (IF num_priority_bits >= 6 THEN {2, 3} ELSE {})

\* indices of the ICH_AP1R<n>_EL2 registers cleared for num_priority_bits
ClearedAP1R(num_priority_bits) ==
    (IF num_priority_bits >= 5 THEN {0} ELSE {})
    \cup (IF num_priority_bits >= 6 THEN {1} ELSE {})
    \cup (IF num_priority_bits > 6 THEN {2, 3} ELSE {})

gicv3_clear_pending_irqs(l, v, ap) ==
    LET c == ClearLRs(l, lr_num(v), 0)
        num_priority_bits == ToNat(Shr(v, VTR_PRIBITS_SHIFT)) + 1
        cleared == ClearedAP1R(num_priority_bits)
    IN  [lr |-> c.lr, fault |-> c.fault,
         ap1r |-> [k \in 0..3 |-> IF k \in cleared THEN {} ELSE ap[k]],
         log |-> c.log \o
             (IF c.fault # "no" THEN <<>>
              ELSE [k \in 1..Cardinality(cleared) |-> Wr("ich_ap1r", k - 1, {})])]

\* variant: the priority field is the threshold just written, not the value read
VmcrValue_newpmr(pmr) == Shl(FromNat(240), 24) \cup {1} \cup {9}

\* variant: bit 9 is left out
VmcrValue_noeoim(pmr) == Shl(pmr \cap FromNat(255), 24) \cup {1}

\* ((pmr & 0xff) << 24) | (1 << 1) | (1 << 9)
VmcrValue(pmr) == Shl(pmr \cap FromNat(255), 24) \cup {1} \cup {9}

\* variant: the virtual interface is configured and enabled before the list
\* registers are cleared
CpuInitEffect_enablefirst(run) ==
    /\ LET pmr == sysreg.icc_pmr_el1
           c == gicv3_clear_pending_irqs(lr, vtr, sysreg.ich_ap1r)
           vmcr == VmcrValue(pmr)
           head == <<Wr("icc_ctlr_el1", 0, FromNat(2)),
                     Wr("icc_pmr_el1", 0, FromNat(240)),
                     Wr("icc_igrpen1_el1", 0, FromNat(1))>>
           tail == <<Wr("ich_vmcr_el2", 0, vmcr), Wr("ich_hcr_el2", 0, FromNat(1))>>
       IN  /\ lr' = c.lr
           /\ halt' = c.fault
           /\ log' = head \o tail \o c.log
           /\ sysreg' = [icc_ctlr_el1 |-> FromNat(2),
                         icc_pmr_el1 |-> FromNat(240),
                         icc_igrpen1_el1 |-> FromNat(1),
                         ich_ap1r |-> c.ap1r,
                         ich_vmcr_el2 |-> vmcr,
                         ich_hcr_el2 |-> FromNat(1)]
    /\ phase' = "active"
    /\ lastOp' = Op("gicv3_cpu_init", run, FALSE, {})
    /\ unconsumed' = {}
    /\ UNCHANGED vtr

\* the body of gicv3_cpu_init; run numbers the calls made on this core
CpuInitEffect(run) ==
    /\ LET pmr == sysreg.icc_pmr_el1
           c == gicv3_clear_pending_irqs(lr, vtr, sysreg.ich_ap1r)
           vmcr == VmcrValue(pmr)
           head == <<Wr("icc_ctlr_el1", 0, FromNat(2)),
                     Wr("icc_pmr_el1", 0, FromNat(240)),
                     Wr("icc_igrpen1_el1", 0, FromNat(1))>>
           tail == <<Wr("ich_vmcr_el2", 0, vmcr), Wr("ich_hcr_el2", 0, FromNat(1))>>
       IN  /\ lr' = c.lr
           /\ halt' = c.fault
           /\ log' = head \o c.log \o (IF c.fault # "no" THEN <<>> ELSE tail)
           /\ sysreg' = [icc_ctlr_el1 |-> FromNat(2),
                         icc_pmr_el1 |-> FromNat(240),
                         icc_igrpen1_el1 |-> FromNat(1),
                         ich_ap1r |-> c.ap1r,
                         ich_vmcr_el2 |-> IF c.fault # "no" THEN sysreg.ich_vmcr_el2 ELSE vmcr,
                         ich_hcr_el2 |-> IF c.fault # "no" THEN sysreg.ich_hcr_el2 ELSE FromNat(1)]
    /\ phase' = "active"
    /\ lastOp' = Op("gicv3_cpu_init", run, FALSE, {})
    /\ unconsumed' = {}
    /\ UNCHANGED vtr

CpuInit ==
    /\ phase = "reset"
    /\ halt = "no"
    /\ CpuInitEffect(0)

\* gicv3_cpu_init called a second time, right after the first
CpuInitAgain ==
    /\ phase = "active"
    /\ halt = "no"
    /\ lastOp = Op("gicv3_cpu_init", 0, FALSE, {})
    /\ CpuInitEffect(1)

CpuShutdown ==
    /\ phase = "active"
    /\ halt = "no"
    /\ phase' = "shutdown"
    /\ lastOp' = Op("gicv3_cpu_shutdown", 0, FALSE, {})
    /\ log' = <<>>
    /\ UNCHANGED <<lr, vtr, sysreg, halt, unconsumed>>

----------------------------------------------------------------------------
(* Entry points used while the core is active *)

Inject ==
    /\ phase = "active"
    /\ halt = "no"
    /\ \E irq_id \in InjectIds, is_hardware \in BOOLEAN :
         LET r == inject_irq(lr, vtr, irq_id, is_hardware)
         IN  /\ lr' = r.lr
             /\ halt' = r.halt
             /\ log' = r.log
             /\ lastOp' = Op("inject_irq", irq_id, is_hardware, {})
             /\ unconsumed' = IF r.halt = "no" THEN unconsumed \cup {irq_id}
                             ELSE unconsumed
    /\ UNCHANGED <<vtr, sysreg, phase>>

\* the identifier a run of the dispatcher handed to inject_irq, if any
InjectedBy(lg) ==
    {lg[k].idx : k \in {j \in DOMAIN lg : lg[j].ev = "call" /\ lg[j].name = "inject_irq"}}

HandleIrq ==
    /\ phase = "active"
    /\ halt = "no"
    /\ \E iar \in AckValues :
         LET r == gicv3_handle_irq_el1(lr, vtr, iar)
         IN  /\ lr' = r.lr
             /\ halt' = r.halt
             /\ log' = r.log
             /\ lastOp' = Op("gicv3_handle_irq_el1", iar, FALSE, r.ack)
             /\ unconsumed' = IF r.halt = "no" THEN unconsumed \cup InjectedBy(r.log)
                             ELSE unconsumed
    /\ UNCHANGED <<vtr, sysreg, phase>>

----------------------------------------------------------------------------
(* The guest, through the virtual CPU interface *)

\* the guest acknowledges a pending virtual interrupt: Pending -> Active
GuestActivate ==
    /\ phase = "active"
    /\ halt = "no"
    /\ \E i \in 0..(lr_num(vtr) - 1) :
         /\ LRState(lr[i]) = {LR_PENDING}
         /\ lr' = [lr EXCEPT ![i] = (lr[i] \ {LR_PENDING}) \cup {LR_ACTIVE}]
         /\ lastOp' = Op("guest_activate", 0, FALSE, {})
    /\ log' = <<>>
    /\ UNCHANGED <<vtr, sysreg, phase, halt, unconsumed>>

\* the guest completes a virtual interrupt: the slot becomes empty, its other
\* fields keep their values
GuestConsume ==
    /\ phase = "active"
    /\ halt = "no"
    /\ \E i \in 0..(lr_num(vtr) - 1) :
         /\ LRState(lr[i]) # {}
         /\ lr' = [lr EXCEPT ![i] = lr[i] \ {LR_PENDING, LR_ACTIVE}]
         /\ unconsumed' = unconsumed \ {ToNat(LRVirtId(lr[i]))}
         /\ lastOp' = Op("guest_consume", 0, FALSE, {})
    /\ log' = <<>>
    /\ UNCHANGED <<vtr, sysreg, phase, halt>>

----------------------------------------------------------------------------
(* Specification *)

VtrValue(listregs, pribits) == FromNat(listregs) \cup Shl(FromNat(pribits), VTR_PRIBITS_SHIFT)

ResetSysreg(pmr) ==
    [icc_ctlr_el1 |-> {}, icc_pmr_el1 |-> pmr, icc_igrpen1_el1 |-> {},
     ich_ap1r |-> [k \in 0..3 |-> {}], ich_vmcr_el2 |-> {}, ich_hcr_el2 |-> {}]

Init ==
    /\ \E n \in 0..MaxListRegs, p \in ResetPriBits : vtr = VtrValue(n, p)
    /\ lr \in [0..(lr_num(vtr) - 1) -> ResetLRValues]
    /\ \E pmr \in ResetPmrValues : sysreg = ResetSysreg(pmr)
    /\ phase = "reset"
    /\ halt = "no"
    /\ lastOp = Op("reset", 0, FALSE, {})
    /\ log = <<>>
    /\ unconsumed = {}

Next ==
    \/ CpuInit
    \/ CpuShutdown
    \/ Inject
    \/ HandleIrq
    \/ GuestActivate
    \/ GuestConsume

Spec == Init /\ [][Next]_vars

----------------------------------------------------------------------------
(* Filling the table: distinct identifiers injected in a row, no consumption *)

\* first identifier of a run of consecutive identifiers
FillStarts == {0, 1003}

SetMax(S) == CHOOSE x \in S : \A y \in S : y <= x

FillInject ==
    /\ phase = "active"
    /\ halt = "no"
    /\ unconsumed # {} => lastOp.op = "inject_irq"
    /\ \E is_hardware \in BOOLEAN :
         /\ unconsumed # {} => is_hardware = lastOp.hw
         /\ \E irq_id \in (IF unconsumed = {} THEN FillStarts
                           ELSE {SetMax(unconsumed) + 1}) :
              LET r == inject_irq(lr, vtr, irq_id, is_hardware)
              IN  /\ lr' = r.lr
                  /\ halt' = r.halt
                  /\ log' = r.log
                  /\ lastOp' = Op("inject_irq", irq_id, is_hardware, {})
                  /\ unconsumed' = IF r.halt = "no" THEN unconsumed \cup {irq_id}
                                   ELSE unconsumed
    /\ UNCHANGED <<vtr, sysreg, phase>>

InitFill ==
    /\ \E n \in 0..VTR_LISTREGS_MASK, p \in ResetPriBits : vtr = VtrValue(n, p)
    /\ lr = [i \in 0..(lr_num(vtr) - 1) |-> {}]
    /\ \E pmr \in ResetPmrValues : sysreg = ResetSysreg(pmr)
    /\ phase = "reset"
    /\ halt = "no"
    /\ lastOp = Op("reset", 0, FALSE, {})
    /\ log = <<>>
    /\ unconsumed = {}

\* the same run of identifiers, acknowledged and dispatched
FillHandleIrq ==
    /\ phase = "active"
    /\ halt = "no"
    /\ unconsumed # {} => lastOp.op = "gicv3_handle_irq_el1"
    /\ \E iar \in (IF unconsumed = {} THEN FillStarts
                    ELSE {SetMax(unconsumed) + 1}) :
         LET r == gicv3_handle_irq_el1(lr, vtr, iar)
         IN  /\ lr' = r.lr
             /\ halt' = r.halt
             /\ log' = r.log
             /\ lastOp' = Op("gicv3_handle_irq_el1", iar, FALSE, r.ack)
             /\ unconsumed' = IF r.halt = "no" THEN unconsumed \cup InjectedBy(r.log)
                             ELSE unconsumed
    /\ UNCHANGED <<vtr, sysreg, phase>>

NextFill ==
    \/ CpuInit
    \/ FillInject
    \/ FillHandleIrq

SpecFill == InitFill /\ [][NextFill]_vars

----------------------------------------------------------------------------
(* Lifecycle: every capability and reset value, gicv3_cpu_init once or twice, *)
(* then one injection                                                         *)

\* reset-time values of icc_pmr_el1, some with bits above the low byte
LifePmrValues == {FromNat(0), FromNat(240), FromNat(165), FromNat(511)}

\* other fields of ich_vtr_el2 (PREbits, bits 26..28)
LifeVtrOther == {{}, 26..28}

\* which list registers hold a left-over interrupt at reset
LifeLeftOver(n) == {{}, 0..(n - 1), {i \in 0..(n - 1) : i % 2 = 0},
                    {i \in 0..(n - 1) : i % 2 = 1}}

InitLife ==
    /\ \E n \in 0..VTR_LISTREGS_MASK, p \in 0..7, o \in LifeVtrOther :
         vtr = VtrValue(n, p) \cup o
    /\ \E g \in LifeLeftOver(lr_num(vtr)) :
         lr = [i \in 0..(lr_num(vtr) - 1) |->
                 IF i \in g THEN FromNat(40 + i) \cup {LR_GROUP1, LR_PENDING} ELSE {}]
    /\ \E pmr \in LifePmrValues :
         sysreg = [ResetSysreg(pmr) EXCEPT !.ich_ap1r = [k \in 0..3 |-> {k}]]
    /\ phase = "reset"
    /\ halt = "no"
    /\ lastOp = Op("reset", 0, FALSE, {})
    /\ log = <<>>
    /\ unconsumed = {}

\* the first inject_irq after gicv3_cpu_init
LifeInject ==
    /\ lastOp.op = "gicv3_cpu_init"
    /\ Inject

NextLife ==
    \/ CpuInit
    \/ CpuInitAgain
    \/ LifeInject

SpecLife == InitLife /\ [][NextLife]_vars

----------------------------------------------------------------------------
(* The classifier functions applied to identifiers *)

\* largest identifier classified, besides the two large ones
MaxIrqn == 1100

ClassifyIds == 0..MaxIrqn \cup {65535, 2147483647}

Ret(f, irqn, b) == [ev |-> "ret", name |-> f, idx |-> irqn, hw |-> b, val |-> {}]

Classify ==
    /\ \E irqn \in ClassifyIds :
         /\ lastOp' = Op("classify", irqn, FALSE, {})
         /\ log' = <<Ret("is_sgi", irqn, is_sgi(irqn)),
                     Ret("is_ppi", irqn, is_ppi(irqn)),
                     Ret("is_spi", irqn, is_spi(irqn))>>
    /\ UNCHANGED <<lr, vtr, sysreg, phase, halt, unconsumed>>

\* one core at reset; the classifiers read no state
InitClassify ==
    /\ InitFill
    /\ lr_num(vtr) = 1

NextClassify == Classify

SpecClassify == InitClassify /\ [][NextClassify]_vars

----------------------------------------------------------------------------
(* Properties *)

Slots == 0..(lr_num(vtr) - 1)
Occupied(l) == {i \in Slots : LRState(l[i]) # {}}
Carrying(l, id) == {i \in Occupied(l) : LRVirtId(l[i]) = FromNat(id)}
LRWrites(lg) == {k \in DOMAIN lg : lg[k].ev = "write" /\ lg[k].name = "ich_lr"}
InjectCalls(lg) == {k \in DOMAIN lg : lg[k].ev = "call" /\ lg[k].name = "inject_irq"}

\* C1: once the core is initialized, no two slots among 0..N-1 that the
\* empty-status bitmap reports occupied carry the same virtual identifier.
C1_NoDuplicateInFlight ==
    phase # "reset" =>
        \A i \in Occupied(lr), j \in Occupied(lr) :
            i # j => LRVirtId(lr[i]) # LRVirtId(lr[j])

\* C1 witness: a re-injection was absorbed while two slots were occupied.
C1_Witness ==
    /\ phase = "active"
    /\ InjectCalls(log) # {} /\ LRWrites(log) = {}
    /\ halt = "no"
    /\ Cardinality(Occupied(lr)) >= 2

\* C2: an Inject of an identifier that was injected before and not consumed
\* since writes no slot, leaves the table as it was and leaves exactly one
\* occupied slot carrying the identifier, whatever the flags.
C2_ReinjectIsNoOp ==
    [][\A k \in InjectCalls(log') :
          log'[k].idx \in unconsumed =>
              /\ lr' = lr
              /\ LRWrites(log') = {}
              /\ halt' = "no"
              /\ Cardinality(Carrying(lr', log'[k].idx)) = 1]_vars

\* C2 witness: the second Inject had the other flag and found an empty slot
\* below the occupied slot that carries its identifier.
C2_Witness ==
    /\ lastOp.op = "inject_irq" /\ lastOp.id = 16 /\ ~lastOp.hw
    /\ LRWrites(log) = {}
    /\ halt = "no"
    /\ 0 \notin Occupied(lr)
    /\ Carrying(lr, 16) = {1}
    /\ LR_HW \in lr[1]

\* C3: from an empty table of N slots, Inject calls with pairwise distinct
\* identifiers return normally and occupy slots 0, 1, ... until all N are
\* occupied; the next one halts for exhaustion and writes no slot; at most N
\* slots are ever occupied.
C3_FillThenExhaust ==
    /\ [](Cardinality(Occupied(lr)) <= lr_num(vtr))
    /\ [][InjectCalls(log') # {} /\ lastOp'.id \notin unconsumed =>
            LET k == Cardinality(Occupied(lr)) IN
            IF k < lr_num(vtr)
            THEN /\ halt' = "no"
                 /\ Occupied(lr') = 0..k
                 /\ unconsumed' = unconsumed \cup {lastOp'.id}
            ELSE /\ halt' = "full lr"
                 /\ lr' = lr
                 /\ LRWrites(log') = {}]_vars

\* C3 witness: a 16-slot table was filled and the 17th identifier halted.
C3_Witness ==
    /\ lr_num(vtr) = 16
    /\ Occupied(lr) = 0..15
    /\ Cardinality(unconsumed) = 16
    /\ halt = "full lr"

\* C4: Inject halts exactly when no occupied slot among 0..N-1 carries the
\* identifier and no slot among 0..N-1 is empty; otherwise it returns.
C4_HaltIffExhausted ==
    [][\A k \in InjectCalls(log') :
          /\ halt' \in {"no", "full lr"}
          /\ halt' = "full lr" <=>
                (Carrying(lr, log'[k].idx) = {} /\ Occupied(lr) = Slots)]_vars

\* C4 witness: an Inject of an identifier in flight returned on a full table.
C4_Witness ==
    /\ InjectCalls(log) # {} /\ LRWrites(log) = {}
    /\ halt = "no"
    /\ lr_num(vtr) >= 2
    /\ Occupied(lr) = Slots

\* bits 32..59 of a list-register value, shifted down
LRPhysId(w) == Shr(w \cap 32..59, 32)

\* C5: a slot value written by Inject(id, is_hardware) has virtual identifier
\* id, group bit set, state Pending; the hardware-mapped bit is set and the
\* physical identifier equals id iff id >= 16 and is_hardware; otherwise the
\* bit is clear and the physical identifier is zero.
C5_EncodedValue ==
    \A c \in InjectCalls(log), k \in LRWrites(log) :
        LET w == log[k].val
            mapped == log[c].idx >= 16 /\ log[c].hw
        IN  /\ LRVirtId(w) = FromNat(log[c].idx)
            /\ LR_GROUP1 \in w
            /\ LRState(w) = {LR_PENDING}
            /\ LR_HW \in w <=> mapped
            /\ LRPhysId(w) = IF mapped THEN FromNat(log[c].idx) ELSE {}
            /\ lr[log[k].idx] = w

\* C5 witness: a software-generated identifier was injected with the flag
\* set while a hardware-mapped slot was in flight.
C5_Witness ==
    /\ lastOp.op = "inject_irq" /\ lastOp.id = 5 /\ lastOp.hw
    /\ LRWrites(log) # {}
    /\ \E i \in Occupied(lr) : LR_HW \in lr[i] /\ LRPhysId(lr[i]) = FromNat(33)

IsCall(e) == e.ev = "call"
IsWrite(e) == e.ev = "write"

\* the calls of a run, in order, as <<function, identifier, flag>>
CallSeq(lg) ==
    LET cs == SelectSeq(lg, IsCall)
    IN  [k \in DOMAIN cs |-> <<cs[k].name, cs[k].idx, cs[k].hw>>]

Dispatched == lastOp.op = "gicv3_handle_irq_el1" /\ lastOp.ack # {}

\* the calls dispatch makes for an acknowledged identifier when every call
\* returns
RouteOf(id) ==
    IF id < 8 THEN <<<<"deactivate_irq", id, FALSE>>, <<"inject_irq", id, FALSE>>>>
    ELSE IF id = SGI_EVENT_ID
    THEN <<<<"check_events", 0, FALSE>>, <<"deactivate_irq", id, FALSE>>>>
    ELSE IF id = SGI_VIRTIO_RES_ID
    THEN <<<<"handle_virtio_result", 0, FALSE>>, <<"deactivate_irq", id, FALSE>>>>
    ELSE IF id >= 16
    THEN <<<<"inject_irq", id, TRUE>>, <<"deactivate_irq", id, FALSE>>>>
    ELSE <<>>

\* C6 as stated: the calls of a dispatch run for an acknowledged identifier
\* are exactly the two of its route, in that order.
C6_RouteAsStated ==
    Dispatched => CallSeq(log) = RouteOf(lastOp.id)

\* C6 amended: as stated, except that for an identifier >= 16 whose Inject
\* halts for exhaustion the run ends there and Deactivate is not called.
C6_Route ==
    Dispatched =>
        CallSeq(log) = IF lastOp.id >= 16 /\ halt # "no"
                       THEN <<<<"inject_irq", lastOp.id, TRUE>>>>
                       ELSE RouteOf(lastOp.id)

\* C6 witness: a guest-forwardable identifier was deactivated and then
\* injected into a free slot.
C6_Witness ==
    /\ Dispatched /\ lastOp.id = 5
    /\ halt = "no"
    /\ LRWrites(log) # {}
    /\ Len(CallSeq(log)) = 2

\* C7: a dispatch run whose acknowledge value is 0x3FE or 0x3FF writes no
\* register, changes no slot and no control register, calls nothing and does
\* not halt.
C7_SpuriousWritesNothing ==
    [][lastOp'.op = "gicv3_handle_irq_el1" /\ lastOp'.id \in {1022, 1023} =>
          /\ lr' = lr
          /\ sysreg' = sysreg
          /\ halt' = halt
          /\ unconsumed' = unconsumed
          /\ \A k \in DOMAIN log' : log'[k].ev = "read"]_vars

\* C7 witness: a spurious acknowledge was dispatched while the table had both
\* an occupied and an empty slot.
C7_Witness ==
    /\ lastOp.op = "gicv3_handle_irq_el1" /\ lastOp.id = 1022
    /\ Occupied(lr) # {}
    /\ Occupied(lr) # Slots

\* the log entries that follow position k up to the next call
RECURSIVE UntilCall(_, _)
UntilCall(lg, k) ==
    IF k > Len(lg) \/ lg[k].ev = "call" THEN <<>>
    ELSE <<lg[k]>> \o UntilCall(lg, k + 1)

DeactivateCalls(lg) ==
    {k \in DOMAIN lg : lg[k].ev = "call" /\ lg[k].name = "deactivate_irq"}

\* C8: Deactivate(id) issues, for id < 16, the priority-drop write and then
\* the deactivation write, both with id, and nothing else; for id >= 16 the
\* priority-drop write alone.
C8_DeactivateWrites ==
    \A k \in DeactivateCalls(log) :
        LET id == log[k].idx IN
        UntilCall(log, k + 1) =
            IF id < 16
            THEN <<Wr("icc_eoir1_el1", 0, FromNat(id)), Wr("icc_dir_el1", 0, FromNat(id))>>
            ELSE <<Wr("icc_eoir1_el1", 0, FromNat(id))>>

\* C8 witness: a peripheral identifier was deactivated after its injection.
C8_Witness ==
    /\ Dispatched /\ lastOp.id = 33
    /\ DeactivateCalls(log) # {}
    /\ LRWrites(log) # {}

\* C9 as stated: every slot value that dispatch writes carries a virtual
\* identifier in 0..1019.
C9_DispatchInjectsValidIds ==
    lastOp.op = "gicv3_handle_irq_el1" =>
        \A k \in LRWrites(log) : ToNat(LRVirtId(log[k].val)) <= 1019

\* C10: dispatch reads the acknowledge register once; the result is none for
\* a raw value >= 0x3FE and the raw value itself below that.
C10_AcknowledgePending ==
    lastOp.op = "gicv3_handle_irq_el1" =>
        /\ Cardinality({k \in DOMAIN log :
              log[k].ev = "read" /\ log[k].name = "icc_iar1_el1"}) = 1
        /\ log[1] = Rd("icc_iar1_el1")
        /\ lastOp.id >= 1022 => lastOp.ack = {}
        /\ lastOp.id < 1022 => lastOp.ack = {lastOp.id}

\* C10 witness: the largest raw value below 0x3FE was acknowledged and acted on.
C10_Witness ==
    /\ lastOp.op = "gicv3_handle_irq_el1" /\ lastOp.id = 1021
    /\ lastOp.ack = {1021}
    /\ InjectCalls(log) # {}

----------------------------------------------------------------------------
(* Classifiers *)

ClassOf(lg) == {k \in DOMAIN lg : lg[k].ev = "ret" /\ lg[k].hw}

\* C11: the three classifiers partition 0..1019 (software-generated below 16,
\* private peripheral 16..31, shared peripheral 32..1019): exactly one is
\* true there, and all three are false for every identifier from 1020 up.
C11_ClassifiersPartition ==
    lastOp.op = "classify" =>
        /\ Len(log) = 3
        /\ log[1].name = "is_sgi" /\ log[2].name = "is_ppi" /\ log[3].name = "is_spi"
        /\ lastOp.id <= 1019 => Cardinality(ClassOf(log)) = 1
        /\ lastOp.id >= 1020 => ClassOf(log) = {}
        /\ log[1].hw <=> lastOp.id \in 0..15
        /\ log[2].hw <=> lastOp.id \in 16..31
        /\ log[3].hw <=> lastOp.id \in 32..1019

\* C11 witness: the first identifier above the shared-peripheral range was
\* classified, and none of the three accepted it.
C11_Witness ==
    /\ lastOp.op = "classify" /\ lastOp.id = 1020
    /\ Len(log) = 3
    /\ \A k \in 1..3 : ~log[k].hw

----------------------------------------------------------------------------
(* Lifecycle *)

Initialized == lastOp.op = "gicv3_cpu_init"

\* C12: gicv3_cpu_init writes, in this order, 2 to the control register,
\* 0xf0 to the priority mask, 1 to the group-1 enable, 0 to each of the N
\* list registers, 0 to the active-priority registers it clears, the
\* virtual-interface control value and 1 to the hypervisor control register;
\* the enable of group 1 and the clearing of all N slots come before the last
\* two writes, so no slot is non-empty when the virtual interface is enabled.
C12_InitWriteOrder ==
    Initialized =>
        LET n == lr_num(vtr)
            last == Len(log)
        IN  /\ last >= n + 5
            /\ \A k \in DOMAIN log : log[k].ev = "write"
            /\ log[1] = Wr("icc_ctlr_el1", 0, FromNat(2))
            /\ log[2] = Wr("icc_pmr_el1", 0, FromNat(240))
            /\ log[3] = Wr("icc_igrpen1_el1", 0, FromNat(1))
            /\ \A i \in 0..(n - 1) : log[4 + i] = Wr("ich_lr", i, {})
            /\ \A k \in (n + 4)..(last - 2) : log[k].name = "ich_ap1r" /\ log[k].val = {}
            /\ log[last - 1].name = "ich_vmcr_el2"
            /\ log[last] = Wr("ich_hcr_el2", 0, FromNat(1))
            /\ sysreg.ich_hcr_el2 = FromNat(1)
            /\ \A i \in DOMAIN lr : lr[i] = {}

\* C12 witness: a core with sixteen list registers and four active-priority
\* registers to clear has been initialised.
C12_Witness ==
    /\ Initialized /\ lastOp.id = 0
    /\ halt = "no"
    /\ lr_num(vtr) = LR_REGS
    /\ Len(log) = LR_REGS + 9
    /\ sysreg.ich_hcr_el2 = FromNat(1)

InitStep == lastOp'.op = "gicv3_cpu_init" /\ lastOp' # lastOp

\* C13: the virtual-interface control value written by gicv3_cpu_init has in
\* bits 24..31 the low byte of the priority mask as it was before the call
\* overwrote it with 0xf0, has bits 1 and 9 set, and has no other bit set.
C13_VmcrFromOldPmr ==
    [][InitStep =>
        /\ sysreg'.ich_vmcr_el2 =
             {1, 9} \cup {24 + b : b \in sysreg.icc_pmr_el1 \cap (0..7)}
        /\ \E k \in DOMAIN log' : log'[k] = Wr("ich_vmcr_el2", 0, sysreg'.ich_vmcr_el2)
        /\ sysreg'.icc_pmr_el1 = FromNat(240)]_vars

\* C13 witness: a core whose priority mask was 0xa5 at reset has been
\* initialised; the control value carries 0xa5, the mask register 0xf0.
C13_Witness ==
    /\ Initialized /\ lastOp.id = 0
    /\ sysreg.icc_pmr_el1 = FromNat(240)
    /\ sysreg.ich_vmcr_el2 = {1, 9, 24, 26, 29, 31}

SecondInitStep == InitStep /\ lastOp.op = "gicv3_cpu_init" /\ lastOp'.id = 1

\* C14 as stated: gicv3_cpu_init run a second time, right after the first,
\* leaves every CPU-interface register and every list register as the first
\* run left it, whatever the priority mask was at reset.
C14_InitIdempotent ==
    [][SecondInitStep => sysreg' = sysreg /\ lr' = lr]_vars

\* C14: a second gicv3_cpu_init right after the first leaves the control
\* register, the priority mask, the group-1 enable, the hypervisor control
\* register, the active-priority registers and every list register as the
\* first run left them; the virtual-interface control value becomes
\* (0xf0 << 24) | bit 1 | bit 9, its priority field now being the threshold
\* the first run wrote and no longer the low byte of the reset-time mask.
C14_SecondInit ==
    [][SecondInitStep =>
        /\ lr' = lr
        /\ sysreg'.icc_ctlr_el1 = sysreg.icc_ctlr_el1
        /\ sysreg'.icc_pmr_el1 = sysreg.icc_pmr_el1
        /\ sysreg'.icc_igrpen1_el1 = sysreg.icc_igrpen1_el1
        /\ sysreg'.ich_hcr_el2 = sysreg.ich_hcr_el2
        /\ sysreg'.ich_ap1r = sysreg.ich_ap1r
        /\ sysreg'.ich_vmcr_el2 = {1, 9} \cup (28..31)
        /\ halt' = "no"]_vars

\* C14 witness: gicv3_cpu_init has run twice on a core with left-over
\* active-priority contents; the control value carries 0xf0.
C14_Witness ==
    /\ Initialized /\ lastOp.id = 1
    /\ halt = "no"
    /\ sysreg.ich_vmcr_el2 = {1, 9} \cup (28..31)
    /\ sysreg.ich_ap1r[3] # {}
    /\ \A i \in DOMAIN lr : lr[i] = {}

----------------------------------------------------------------------------
(* Dispatch and injection: what is left alone *)

\* identifiers in 8..15 that dispatch only logs
SkippedSGIs == (8..15) \ {SGI_EVENT_ID, SGI_VIRTIO_RES_ID}

\* C15: when the acknowledged identifier is the resume identifier or another
\* identifier in 8..15 that is not reserved, one dispatch writes neither the
\* priority-drop nor the deactivate register, leaves every list register as
\* it was and calls no collaborator: it only reads the acknowledge register.
C15_SkippedSGIsUntouched ==
    [][(lastOp'.op = "gicv3_handle_irq_el1" /\ lastOp'.id \in SkippedSGIs) =>
        /\ log' = <<Rd("icc_iar1_el1")>>
        /\ lr' = lr
        /\ halt' = halt
        /\ lastOp'.ack = {lastOp'.id}]_vars

\* C15 witness: the resume identifier was acknowledged while a list register
\* was occupied; nothing but the acknowledge read happened.
C15_Witness ==
    /\ lastOp.op = "gicv3_handle_irq_el1" /\ lastOp.id = SGI_RESUME_ID
    /\ lastOp.ack = {SGI_RESUME_ID}
    /\ Len(log) = 1
    /\ Occupied(lr) # {}

\* indices of the list registers a run wrote
WrittenLRs(lg) == {lg[k].idx : k \in LRWrites(lg)}

\* C16: an Inject that returns writes at most one list register, and that
\* one is the lowest index in 0..N-1 the empty-status bitmap reported empty
\* when the call began; a slot reported occupied is never written and every
\* slot other than the written one keeps its value.
C16_InjectWritesLowestEmpty ==
    [][(InjectCalls(log') # {} /\ halt' = "no") =>
        LET empty == ICH_ELRSR_EL2(lr)
        IN  /\ Cardinality(LRWrites(log')) <= 1
            /\ WrittenLRs(log') \subseteq empty
            /\ \A i \in WrittenLRs(log'), j \in empty : i <= j
            /\ DOMAIN lr' = DOMAIN lr
            /\ \A i \in DOMAIN lr : i \notin WrittenLRs(log') => lr'[i] = lr[i]]_vars

\* C16 witness: an Inject wrote slot 0 while slot 1, which still holds the
\* fields of a consumed interrupt, was empty too and kept its value.
C16_Witness ==
    /\ lastOp.op = "inject_irq"
    /\ halt = "no"
    /\ WrittenLRs(log) = {0}
    /\ lr_num(vtr) = 2
    /\ 1 \in ICH_ELRSR_EL2(lr)
    /\ lr[1] # {}

\* C17: gicv3_clear_pending_irqs writes 0 to each list register 0..N-1, with
\* N = (low 4 bits of ich_vtr_el2) + 1, and to no index from N up; so after
\* gicv3_cpu_init every implemented slot is empty whatever it held, and the
\* first Inject after it returns and occupies slot 0.
C17_ResetAllThenInject ==
    /\ [](Initialized =>
            LET n == ToNat(vtr \cap (0..3)) + 1
            IN  /\ WrittenLRs(log) = 0..(n - 1)
                /\ Cardinality(LRWrites(log)) = n
                /\ \A k \in LRWrites(log) : log[k].val = {}
                /\ DOMAIN lr = 0..(n - 1)
                /\ \A i \in DOMAIN lr : lr[i] = {}
                /\ halt = "no")
    /\ [][(lastOp.op = "gicv3_cpu_init" /\ InjectCalls(log') # {}) =>
            /\ halt' = "no"
            /\ WrittenLRs(log') = {0}
            /\ Occupied(lr') = {0}
            /\ LRVirtId(lr'[0]) = FromNat(lastOp'.id)]_vars

\* C17 witness: on a core with sixteen list registers the first Inject after
\* gicv3_cpu_init returned with slot 0 occupied and the other fifteen empty.
C17_Witness ==
    /\ lastOp.op = "inject_irq"
    /\ halt = "no"
    /\ lr_num(vtr) = LR_REGS
    /\ Occupied(lr) = {0}
    /\ \A i \in 1..(LR_REGS - 1) : lr[i] = {}

\* C18: whatever ich_vtr_el2 reports and whatever gicv3_cpu_init, Inject and
\* dispatch runs have happened, every list-register read or write uses an
\* index i with 0 <= i < N <= 16: the "lr over" arm of read_lr and write_lr
\* is never taken, and no register from N up is touched.
C18_NoLROver ==
    /\ halt # "lr over"
    /\ halt # "undef lr"
    /\ lr_num(vtr) <= LR_REGS
    /\ DOMAIN lr = 0..(lr_num(vtr) - 1)
    /\ \A i \in WrittenLRs(log) : 0 <= i /\ i < lr_num(vtr)

\* C18 witness: with sixteen list registers occupied a dispatch scanned all
\* of them, index 15 included, and ended in exhaustion.
C18_Witness ==
    /\ lastOp.op = "gicv3_handle_irq_el1"
    /\ lr_num(vtr) = LR_REGS
    /\ Occupied(lr) = 0..(LR_REGS - 1)
    /\ halt = "full lr"

APWrites(lg) == {k \in DOMAIN lg : lg[k].ev = "write" /\ lg[k].name = "ich_ap1r"}

\* priority bits reported: the field in bits 29 and up of ich_vtr_el2, plus one
PriorityBits == ToNat({b - 29 : b \in vtr \cap (29..63)}) + 1

\* C19: the number of active-priority registers gicv3_cpu_init clears depends
\* only on the priority bits reported: none below 5 bits, exactly one
\* (register 0) for 5, exactly two (0 and 1) for 6, exactly four above 6.
C19_APClearedByPriorityBits ==
    Initialized =>
        LET count == IF PriorityBits < 5 THEN 0
                     ELSE IF PriorityBits = 5 THEN 1
                     ELSE IF PriorityBits = 6 THEN 2
                     ELSE 4
        IN  /\ Cardinality(APWrites(log)) = count
            /\ {log[k].idx : k \in APWrites(log)} = 0..(count - 1)
            /\ \A k \in APWrites(log) : log[k].val = {}
            /\ \A k \in 0..3 : sysreg.ich_ap1r[k] = {} <=> k < count

\* C19 witness: with six priority bits reported registers 0 and 1 were
\* cleared and registers 2 and 3 kept what they held.
C19_Witness ==
    /\ Initialized /\ lastOp.id = 0
    /\ PriorityBits = 6
    /\ Cardinality(APWrites(log)) = 2
    /\ sysreg.ich_ap1r[1] = {}
    /\ sysreg.ich_ap1r[2] # {} /\ sysreg.ich_ap1r[3] # {}

WritesTo(lg, reg) == {k \in DOMAIN lg : lg[k].ev = "write" /\ lg[k].name = reg}

\* C20: when the Inject of a dispatch halts for exhaustion, then for an
\* acknowledged identifier >= 16 no priority-drop (and no deactivate) write
\* has been issued, while for an identifier < 8 the priority-drop write and
\* then the deactivate write for it were issued before the Inject call; in
\* both cases no list register is written or changed.
C20_ExhaustionInDispatch ==
    [][(lastOp'.op = "gicv3_handle_irq_el1" /\ halt = "no" /\ halt' = "full lr") =>
        LET id == lastOp'.id
            eoir == WritesTo(log', "icc_eoir1_el1")
            dir == WritesTo(log', "icc_dir_el1")
        IN  /\ lr' = lr
            /\ LRWrites(log') = {}
            /\ id < 8 \/ id >= 16
            /\ id >= 16 => eoir = {} /\ dir = {}
            /\ id < 8 =>
                 /\ Cardinality(eoir) = 1 /\ Cardinality(dir) = 1
                 /\ \A e \in eoir, d \in dir, c \in InjectCalls(log') :
                      /\ e < d /\ d < c
                      /\ log'[e].val = FromNat(id)
                      /\ log'[d].val = FromNat(id)]_vars

\* C20 witness: a guest-forwardable identifier was acknowledged with every
\* slot occupied by other identifiers; it was dropped and deactivated, and
\* the core halted in Inject.
C20_Witness ==
    /\ lastOp.op = "gicv3_handle_irq_el1" /\ lastOp.id = 5
    /\ halt = "full lr"
    /\ WritesTo(log, "icc_dir_el1") # {}
    /\ Occupied(lr) = Slots
    /\ Carrying(lr, 5) = {}

====
